---- MODULE Spec2Model ----
(***************************************************************************)
(* The simulation orchestration client of AlgoClash:                       *)
(*   frontend/src/components/Dashboard.js       (selection, submit, poll,  *)
(*                                               progress parsing, reset)  *)
(*   frontend/src/components/CustomDropdown.js  (the option click guard)   *)
(*                                                                         *)
(* React state and refs are the variables.  Every event handler and every  *)
(* continuation of an await (a fetch that resolves or rejects, a timer     *)
(* that fires) is one atomic action: JavaScript runs each to completion    *)
(* and React re-renders before the next event is dispatched.               *)
(*                                                                         *)
(* Strings built by template literals are tuples of their parts, a JS null *)
(* is the string "null", an absent/falsy string field is "", an absent     *)
(* message is <<>>, and an absent or non-numeric progress field is <<>>.   *)
(***************************************************************************)
EXTENDS Integers, Sequences, FiniteSets, TLC

VARIABLES
    stocks,              \* Dashboard.js:9   list of dataset filenames
    selectedStock,       \* Dashboard.js:10
    selectedAgents,      \* Dashboard.js:11  slot -> identifier or "null"
    simulationStatus,    \* Dashboard.js:19
    simulationResults,   \* Dashboard.js:20
    isRunning,           \* Dashboard.js:21
    showInstructions,    \* Dashboard.js:22
    progress,            \* Dashboard.js:23
    currentTask,         \* Dashboard.js:24
    genStates,           \* Dashboard.js:25  name -> pending|generating|done
    lastGeneratingRef,   \* Dashboard.js:26
    codePreview,         \* Dashboard.js:27
    codePreviewModel,    \* Dashboard.js:28
    lastPreviewModelRef, \* Dashboard.js:29
    runReqs,             \* POST /api/run requests awaiting resolution
    polls,               \* GET /api/simulation/<id> requests awaiting resolution
    timers,              \* setTimeout callbacks scheduled at Dashboard.js:165
    alert,               \* text of the alert() raised by the last START click
    handles              \* simulation ids returned by successful creations

vars == <<stocks, selectedStock, selectedAgents, simulationStatus,
          simulationResults, isRunning, showInstructions, progress,
          currentTask, genStates, lastGeneratingRef, codePreview,
          codePreviewModel, lastPreviewModelRef, runReqs, polls, timers,
          alert, handles>>

selVars == <<stocks, selectedStock, selectedAgents>>

lifeVars == <<simulationStatus, simulationResults, isRunning,
              showInstructions, progress, currentTask, genStates,
              lastGeneratingRef, codePreview, codePreviewModel,
              lastPreviewModelRef>>

netVars == <<runReqs, polls, timers, handles>>

----------------------------------------------------------------------------
(* Values *)

Null == "null"

\* The six slots, in the key order of the object literal.
SlotOrder == <<"left-1", "left-2", "left-3", "right-1", "right-2", "right-3">>

Slots == {SlotOrder[i] : i \in 1..Len(SlotOrder)}

\* The catalog served by GET /api/ai_agents, flattened over its providers.
Catalog == {"A", "B", "C", "D", "E", "F", "G"}

\* The list served by GET /api/data_files.
DataFiles == <<"AAPL_data.csv", "MSFT_data.csv">>

EmptySelection == [s \in Slots |-> Null]

NotNull(S) == {a \in S : a # Null}

Range(f) == {f[x] : x \in DOMAIN f}

\* Number.prototype.toString, for the percentages the model uses.
NumStr(n) == CASE n = 0 -> "0" [] n = 40 -> "40" [] n = 100 -> "100" [] OTHER -> "?"

----------------------------------------------------------------------------
(* Server responses, drawn from small sets *)

SimIds == {"sim-1"}

RunErrors == {"", "Unknown agent"}         \* data.error of a non-2xx reply

TransportMsgs == {"Failed to fetch"}       \* error.message of a rejected fetch

MsgIndex == {"3"}

MsgModels == {"A", "B"}

GenMsg(k, m) == <<"Generating algorithm ", k, "/6 using ", m, "...">>

AllDoneMsg == <<"All algorithms generated successfully">>

OtherMsg == <<"Running market simulation">>

Messages == {<<>>, AllDoneMsg, OtherMsg} \cup {GenMsg(k, m) : k \in MsgIndex, m \in MsgModels}

ProgressFields == {<<>>, <<40>>, <<100>>}

PreviewCodes == {"code-1", "code-2"}

PreviewModels == {"", "A"}

ResultPayloads == {"results-1", "results-2"}

ErrorTexts == {"Generation failed"}

Snapshot(st, pr, msg, code, pm, res, err) ==
    [status |-> st, progress |-> pr, message |-> msg, code_preview |-> code,
     preview_model |-> pm, results |-> res, error |-> err]

RunningSnapshots ==
    {Snapshot("running", pr, msg, "", "", Null, "") :
        pr \in ProgressFields, msg \in Messages}
    \cup
    {Snapshot("running", pr, msg, c, pm, Null, "") :
        pr \in ProgressFields, msg \in Messages, c \in PreviewCodes, pm \in PreviewModels}

CompletedSnapshots ==
    {Snapshot("completed", <<100>>, <<>>, "", "", r, "") : r \in ResultPayloads}

ErrorSnapshots ==
    {Snapshot("error", <<>>, <<>>, "", "", Null, e) : e \in ErrorTexts}

Snapshots == RunningSnapshots \cup CompletedSnapshots \cup ErrorSnapshots

----------------------------------------------------------------------------
(* Selection registry *)

\* disabledFor looking only at the slots of the queried slot's own side.
disabledForOwnSide(sel, slot) ==
    LET left == {"left-1", "left-2", "left-3"}
        side == IF slot \in left THEN left ELSE Slots \ left
    IN  {sel[s] : s \in side} \ {Null, sel[slot]}

\* disabledFor that keeps the queried slot's own identifier.
disabledForWithOwn(sel, slot) == {a \in Range(sel) : a # Null}

\* Dashboard.js:296-298: the identifiers held by the slots, without the one
\* held by the queried slot itself.
disabledFor(sel, slot) == {a \in Range(sel) : a # Null /\ a # sel[slot]}

\* CustomDropdown.js:77: a click on an option is dropped when the option is
\* disabled and is not the slot's own value.
Offered(sel, slot, agent) == ~(agent \in disabledFor(sel, slot) /\ sel[slot] # agent)

\* setSelectedAgents that also takes the identifier out of the other slots.
setSelectedAgentsExclusive(slot, agent) ==
    /\ selectedAgents' =
          [s \in Slots |-> IF s = slot THEN agent
                           ELSE IF selectedAgents[s] = agent THEN Null
                           ELSE selectedAgents[s]]
    /\ UNCHANGED <<stocks, selectedStock, lifeVars, netVars, alert>>

\* Dashboard.js:73: setSelectedAgents(prev => ({ ...prev, [id]: agent })), the
\* whole of the handler: it tests nothing.
setSelectedAgents(slot, agent) ==
    /\ selectedAgents' = [selectedAgents EXCEPT ![slot] = agent]
    /\ UNCHANGED <<stocks, selectedStock, lifeVars, netVars, alert>>

\* handleAgentSelect that starts the Generation State Map again from the
\* edited selection.
handleAgentSelectResync(slot, agent) ==
    /\ Offered(selectedAgents, slot, agent)
    /\ selectedAgents' = [selectedAgents EXCEPT ![slot] = agent]
    /\ genStates' = IF isRunning
                    THEN [n \in NotNull(Range(selectedAgents')) |-> "pending"]
                    ELSE genStates
    /\ UNCHANGED <<stocks, selectedStock, simulationStatus, simulationResults,
                   isRunning, showInstructions, progress, currentTask,
                   lastGeneratingRef, codePreview, codePreviewModel,
                   lastPreviewModelRef, netVars, alert>>

\* Dashboard.js:72-74 behind the click guard of CustomDropdown.js:76-79.
handleAgentSelect(slot, agent) ==
    /\ Offered(selectedAgents, slot, agent)
    /\ setSelectedAgents(slot, agent)

\* Dashboard.js:39-56: the data-file list arrives; the first entry becomes the
\* chosen dataset.  A failed or empty fetch leaves stocks = [] as it was.
DataFilesLoaded ==
    /\ stocks = <<>>
    /\ stocks' = DataFiles
    /\ selectedStock' = IF Len(DataFiles) > 0 THEN DataFiles[1] ELSE selectedStock
    /\ UNCHANGED <<selectedAgents, lifeVars, netVars, alert>>

\* Dashboard.js:272-276: the <select> offers the loaded filenames.
setSelectedStock(f) ==
    /\ f \in Range(stocks)
    /\ selectedStock' = f
    /\ UNCHANGED <<stocks, selectedAgents, lifeVars, netVars, alert>>

----------------------------------------------------------------------------
(* Job submitter *)

\* Dashboard.js:78: Object.values(selectedAgents).filter(Boolean), in key order.
SelectedList(sel) == SelectSeq([i \in 1..Len(SlotOrder) |-> sel[SlotOrder[i]]],
                               LAMBDA a : a # Null)

\* ValidationAlert without the dataset check.
ValidationAlertAgentsOnly(sel, stock) ==
    IF Len(SelectedList(sel)) # 6
    THEN "Please select all 6 AI agents before starting the simulation."
    ELSE Null

\* Dashboard.js:79-87: the text of the alert raised, Null when validation passes.
ValidationAlert(sel, stock) ==
    IF Len(SelectedList(sel)) # 6
    THEN "Please select all 6 AI agents before starting the simulation."
    ELSE IF stock = ""
    THEN "Please select a stock dataset."
    ELSE Null

\* InitStates that is never filled.
InitStatesEmpty(agents) == <<>>

\* Dashboard.js:95-98: every distinct submitted name starts as pending.
InitStates(agents) == [name \in Range(agents) |-> "pending"]

\* RunRequest sending the default dataset instead of the chosen one.
RunRequestDefaultStock(agents, stock, closure) ==
    [agents |-> agents, stock |-> DataFiles[1], codePreview |-> closure]

\* Dashboard.js:103-112: the request, with what its continuation closes over.
RunRequest(agents, stock, closure) ==
    [agents |-> agents, stock |-> stock, codePreview |-> closure]

\* Dashboard.js:76-112, a click on START (the button is disabled while
\* isRunning, line 401), up to the first await.  The request closes over the
\* render it was clicked in: agents, stock, and the codePreview that
\* pollSimulationStatus will compare against (line 156).
handleStartSimulation ==
    /\ ~isRunning
    /\ alert' = ValidationAlert(selectedAgents, selectedStock)
    /\ IF alert' # Null
       THEN UNCHANGED <<selVars, lifeVars, netVars>>
       ELSE /\ isRunning' = TRUE
            /\ simulationResults' = Null
            /\ simulationStatus' = <<"Starting simulation...">>
            /\ showInstructions' = FALSE
            /\ progress' = 0
            /\ genStates' = InitStates(SelectedList(selectedAgents))
            /\ lastGeneratingRef' = Null
            /\ runReqs' = Append(runReqs,
                    RunRequest(SelectedList(selectedAgents), selectedStock,
                               codePreview))
            /\ UNCHANGED <<selVars, currentTask, codePreview, codePreviewModel,
                           lastPreviewModelRef, polls, timers, handles>>

\* Removes the i-th element of a sequence.
Without(q, i) == [j \in 1..(Len(q) - 1) |-> IF j < i THEN q[j] ELSE q[j + 1]]

\* IssuePoll reading the id under a key the reply does not have.
IssuePollUndefinedId(q, simId, closure) ==
    Append(q, [simId |-> "undefined", codePreview |-> closure])

\* Dashboard.js:132-135: pollSimulationStatus up to its first await: the
\* status request is issued.
IssuePoll(q, simId, closure) == Append(q, [simId |-> simId, codePreview |-> closure])

\* Dashboard.js:114-121: POST /api/run answered 2xx with a simulation id.
RunResolved(i, simId) ==
    /\ i \in 1..Len(runReqs)
    /\ simulationStatus' = <<"Simulation running...">>
    /\ runReqs' = Without(runReqs, i)
    /\ polls' = IssuePoll(polls, simId, runReqs[i].codePreview)
    /\ handles' = handles \cup {simId}
    /\ UNCHANGED <<selVars, simulationResults, isRunning, showInstructions,
                   progress, currentTask, genStates, lastGeneratingRef,
                   codePreview, codePreviewModel, lastPreviewModelRef,
                   timers, alert>>

\* RunErrorMessage ignoring the server's message.
RunErrorMessageGeneric(err) == "Failed to start simulation"

\* Dashboard.js:123: data.error || 'Failed to start simulation'.
RunErrorMessage(err) == IF err # "" THEN err ELSE "Failed to start simulation"

\* Dashboard.js:125-129: the catch block.
RunFailed(i, message) ==
    /\ i \in 1..Len(runReqs)
    /\ simulationStatus' = <<"Error: ", message>>
    /\ isRunning' = FALSE
    /\ runReqs' = Without(runReqs, i)
    /\ UNCHANGED <<selVars, simulationResults, showInstructions, progress,
                   currentTask, genStates, lastGeneratingRef, codePreview,
                   codePreviewModel, lastPreviewModelRef, polls, timers,
                   handles, alert>>

\* Dashboard.js:122-124: POST /api/run answered non-2xx with body {error}.
RunRejected(i, err) == RunFailed(i, RunErrorMessage(err))

\* Dashboard.js:103,114: fetch rejects or the body is not JSON.
RunTransportFailed(i, msg) == RunFailed(i, msg)

----------------------------------------------------------------------------
(* Progress interpreter *)

\* Dashboard.js:178,180: the model named by "Generating algorithm k/n using
\* <model>...", Null when the message does not match.
genMatch(message) ==
    IF Len(message) = 5 /\ message[1] = "Generating algorithm " /\ message[5] = "..."
    THEN message[4]
    ELSE Null

\* allGenerated matching every one-part message.
allGeneratedLoose(message) == Len(message) = 1

\* Dashboard.js:190.
allGenerated(message) == message = AllDoneMsg

\* { ...prevState, [name]: state }
Mark(g, name, state) ==
    [n \in DOMAIN g \cup {name} |-> IF n = name THEN state ELSE g[n]]

\* parsedGenStates that leaves the previous model at generating.
parsedGenStatesKeepPrevious(g, prev, message) ==
    IF genMatch(message) # Null
    THEN Mark(g, genMatch(message), "generating")
    ELSE IF allGenerated(message)
    THEN [n \in DOMAIN g |-> "done"]
    ELSE g

\* parsedGenStates that completes only the model last seen generating.
parsedGenStatesDoneLastOnly(g, prev, message) ==
    IF genMatch(message) # Null
    THEN LET model == genMatch(message)
             g1 == IF prev # Null /\ prev # model THEN Mark(g, prev, "done") ELSE g
         IN  Mark(g1, model, "generating")
    ELSE IF allGenerated(message) /\ prev # Null
    THEN Mark(g, prev, "done")
    ELSE g

\* Dashboard.js:179-198: the Generation State Map after the message.
parsedGenStates(g, prev, message) ==
    IF genMatch(message) # Null
    THEN LET model == genMatch(message)
             g1 == IF prev # Null /\ prev # model THEN Mark(g, prev, "done") ELSE g
         IN  Mark(g1, model, "generating")
    ELSE IF allGenerated(message)
    THEN [n \in DOMAIN g |-> "done"]
    ELSE g

\* parsedLastGenerating that keeps the first model it was given.
parsedLastGeneratingFirst(prev, message) ==
    IF genMatch(message) # Null
    THEN (IF prev # Null THEN prev ELSE genMatch(message))
    ELSE IF allGenerated(message) THEN Null
    ELSE prev

\* Dashboard.js:185,196: lastGeneratingRef.current after the message.
parsedLastGenerating(prev, message) ==
    IF genMatch(message) # Null THEN genMatch(message)
    ELSE IF allGenerated(message) THEN Null
    ELSE prev

\* Dashboard.js:175-199.
parseProgressMessage(message) ==
    /\ currentTask' = message
    /\ genStates' = parsedGenStates(genStates, lastGeneratingRef, message)
    /\ lastGeneratingRef' = parsedLastGenerating(lastGeneratingRef, message)

----------------------------------------------------------------------------
(* Poll loop *)

\* Dashboard.js:148.
pctOf(data) == IF Len(data.progress) = 0 THEN 0 ELSE data.progress[1]

\* Dashboard.js:149.
messageOf(data) ==
    IF data.message # <<>> THEN data.message
    ELSE <<"Running... ", NumStr(pctOf(data)), "%">>

\* Dashboard.js:152-156: the snapshot carries a preview and it passes the
\* comparison against the ref and the codePreview of the closure.
previewAccepted(data, closure) ==
    /\ data.code_preview # ""
    /\ \/ data.preview_model # lastPreviewModelRef
       \/ data.code_preview # closure

\* Dashboard.js:139: the results after the snapshot.
polledResults(results, data) ==
    IF data.status = "completed" THEN data.results ELSE results

\* Dashboard.js:140,145,150: the status text after the snapshot.
polledStatus(data) ==
    CASE data.status = "completed" -> <<"Simulation completed!">>
      [] data.status = "error" -> <<"Error: ", data.error>>
      [] OTHER -> messageOf(data)

\* polledRunning that clears the run flag on every snapshot.
polledRunningCleared(running, data) == FALSE

\* Dashboard.js:141,146: the run flag after the snapshot.
polledRunning(running, data) ==
    IF data.status \in {"completed", "error"} THEN FALSE ELSE running

\* polledProgress filling the bar on an error snapshot too.
polledProgressFullOnError(pct, data) ==
    CASE data.status \in {"completed", "error"} -> 100
      [] OTHER -> pctOf(data)

\* polledProgress that never lowers the displayed value.
polledProgressMonotone(pct, data) ==
    CASE data.status = "completed" -> 100
      [] data.status = "error" -> pct
      [] OTHER -> IF pctOf(data) > pct THEN pctOf(data) ELSE pct

\* polledProgress that adds the reported value to the displayed one.
polledProgressAdded(pct, data) ==
    CASE data.status = "completed" -> 100
      [] data.status = "error" -> pct
      [] OTHER -> IF pct + pctOf(data) > 100 THEN 100 ELSE pct + pctOf(data)

\* polledProgress that leaves the bar where it was on completion.
polledProgressKeptOnCompleted(pct, data) ==
    CASE data.status \in {"completed", "error"} -> pct
      [] OTHER -> pctOf(data)

\* Dashboard.js:142,151: the progress after the snapshot.
polledProgress(pct, data) ==
    CASE data.status = "completed" -> 100
      [] data.status = "error" -> pct
      [] OTHER -> pctOf(data)

\* rescheduled that stops on an error only.
rescheduledUnlessError(q, data, req) ==
    IF data.status = "error" THEN q ELSE Append(q, req)

\* rescheduled that stops on completion only.
rescheduledUnlessCompleted(q, data, req) ==
    IF data.status = "completed" THEN q ELSE Append(q, req)

\* rescheduled that sets two timers for a running snapshot.
rescheduledTwice(q, data, req) ==
    IF data.status \in {"completed", "error"} THEN q ELSE Append(Append(q, req), req)

\* Dashboard.js:138,144,165: only the else branch schedules the next poll.
rescheduled(q, data, req) ==
    IF data.status \in {"completed", "error"} THEN q ELSE Append(q, req)

\* Dashboard.js:136-166: the status request polls[i] is answered with data.
pollSimulationStatus(i, data) ==
    /\ i \in 1..Len(polls)
    /\ polls' = Without(polls, i)
    /\ simulationResults' = polledResults(simulationResults, data)
    /\ simulationStatus' = polledStatus(data)
    /\ isRunning' = polledRunning(isRunning, data)
    /\ progress' = polledProgress(progress, data)
    /\ timers' = rescheduled(timers, data, polls[i])
    /\ IF data.status \in {"completed", "error"}
       THEN UNCHANGED <<currentTask, genStates, lastGeneratingRef,
                        codePreview, codePreviewModel, lastPreviewModelRef>>
       ELSE /\ IF previewAccepted(data, polls[i].codePreview)
               THEN /\ codePreview' = data.code_preview
                    /\ codePreviewModel' = data.preview_model
                    /\ lastPreviewModelRef' = data.preview_model
               ELSE UNCHANGED <<codePreview, codePreviewModel, lastPreviewModelRef>>
            /\ parseProgressMessage(messageOf(data))
    /\ UNCHANGED <<selVars, showInstructions, runReqs, handles, alert>>

\* pollFailed that tries again after the delay.
pollFailedRetry(i, msg) ==
    /\ i \in 1..Len(polls)
    /\ polls' = Without(polls, i)
    /\ timers' = Append(timers, polls[i])
    /\ simulationStatus' = <<"Polling error: ", msg>>
    /\ isRunning' = FALSE
    /\ UNCHANGED <<selVars, simulationResults, showInstructions, progress,
                   currentTask, genStates, lastGeneratingRef, codePreview,
                   codePreviewModel, lastPreviewModelRef, runReqs,
                   handles, alert>>

\* pollFailed that leaves the run flag set.
pollFailedStillRunning(i, msg) ==
    /\ i \in 1..Len(polls)
    /\ polls' = Without(polls, i)
    /\ simulationStatus' = <<"Polling error: ", msg>>
    /\ UNCHANGED <<selVars, simulationResults, isRunning, showInstructions,
                   progress, currentTask, genStates, lastGeneratingRef,
                   codePreview, codePreviewModel, lastPreviewModelRef, runReqs,
                   timers, handles, alert>>

\* Dashboard.js:167-171: the status request polls[i] fails (fetch rejects or
\* the body does not parse).
pollFailed(i, msg) ==
    /\ i \in 1..Len(polls)
    /\ polls' = Without(polls, i)
    /\ simulationStatus' = <<"Polling error: ", msg>>
    /\ isRunning' = FALSE
    /\ UNCHANGED <<selVars, simulationResults, showInstructions, progress,
                   currentTask, genStates, lastGeneratingRef, codePreview,
                   codePreviewModel, lastPreviewModelRef, runReqs, timers,
                   handles, alert>>

\* timerFired that issues no request.
timerFiredLost(i) ==
    /\ i \in 1..Len(timers)
    /\ timers' = Without(timers, i)
    /\ UNCHANGED <<selVars, lifeVars, runReqs, polls, handles, alert>>

\* Dashboard.js:165: the timer fires and calls pollSimulationStatus(simId).
timerFired(i) ==
    /\ i \in 1..Len(timers)
    /\ timers' = Without(timers, i)
    /\ polls' = IssuePoll(polls, timers[i].simId, timers[i].codePreview)
    /\ UNCHANGED <<selVars, lifeVars, runReqs, handles, alert>>

----------------------------------------------------------------------------
(* Reset *)

\* backOffered as soon as the instructions are hidden.
backOfferedWhenShown == ~showInstructions

\* Dashboard.js:414,438: the Back button is rendered inside the results
\* container only.
backOffered == simulationResults # Null

\* Dashboard.js:201-215: the handler itself, which tests nothing.
handleBackBody ==
    /\ simulationResults' = Null
    /\ simulationStatus' = <<>>
    /\ isRunning' = FALSE
    /\ progress' = 0
    /\ currentTask' = <<>>
    /\ codePreview' = ""
    /\ codePreviewModel' = ""
    /\ lastPreviewModelRef' = ""
    /\ genStates' = <<>>
    /\ lastGeneratingRef' = Null
    /\ showInstructions' = TRUE
    /\ UNCHANGED <<selVars, netVars, alert>>

\* Dashboard.js:201-215 behind the button of lines 414-438: a click on Back.
handleBack == backOffered /\ handleBackBody

----------------------------------------------------------------------------
(* Specifications *)

Lifecycle ==
    \/ handleStartSimulation
    \/ \E i \in 1..Len(runReqs), id \in SimIds : RunResolved(i, id)
    \/ \E i \in 1..Len(runReqs), e \in RunErrors : RunRejected(i, e)
    \/ \E i \in 1..Len(runReqs), m \in TransportMsgs : RunTransportFailed(i, m)
    \/ \E i \in 1..Len(polls), d \in Snapshots : pollSimulationStatus(i, d)
    \/ \E i \in 1..Len(polls), m \in TransportMsgs : pollFailed(i, m)
    \/ \E i \in 1..Len(timers) : timerFired(i)
    \/ handleBack

\* A selection SpecSel reaches: five slots filled, "right-3" still empty.
FiveSelected ==
    [s \in Slots |-> CASE s = "left-1" -> "A" [] s = "left-2" -> "B"
                       [] s = "left-3" -> "C" [] s = "right-1" -> "D"
                       [] s = "right-2" -> "E" [] OTHER -> Null]

\* The lifecycle is explored from the first render and from FiveSelected, with
\* the selection edits below; SpecSel explores every edit.
StartSelections == {EmptySelection, FiveSelected}

EditInputs == {<<"right-3", "F">>, <<"right-3", "G">>, <<"right-3", "A">>,
               <<"left-1", "G">>, <<"left-1", "A">>}

InitFrom(selections) ==
    /\ selectedAgents \in selections
    /\ stocks = <<>>
    /\ selectedStock = ""
    /\ simulationStatus = <<>>
    /\ simulationResults = Null
    /\ isRunning = FALSE
    /\ showInstructions = TRUE
    /\ progress = 0
    /\ currentTask = <<>>
    /\ genStates = <<>>
    /\ lastGeneratingRef = Null
    /\ codePreview = ""
    /\ codePreviewModel = ""
    /\ lastPreviewModelRef = ""
    /\ runReqs = <<>>
    /\ polls = <<>>
    /\ timers = <<>>
    /\ alert = Null
    /\ handles = {}

\* Dashboard.js:6-29: the state after the first render.
Init == InitFrom({EmptySelection})

Next ==
    \/ \E e \in EditInputs : handleAgentSelect(e[1], e[2])
    \/ DataFilesLoaded
    \/ \E f \in Range(DataFiles) : setSelectedStock(f)
    \/ Lifecycle

Spec == InitFrom(StartSelections) /\ [][Next]_vars

\* The selection registry alone, over the whole catalog.
NextSel ==
    \E s \in Slots, a \in Catalog : handleAgentSelect(s, a)

SpecSel == Init /\ [][NextSel]_vars

\* Arbitrary selection states for the validation of handleStartSimulation,
\* duplicates included: four slots fixed, the other two range over everything.
AnySelections ==
    {sel \in [Slots -> Catalog \cup {Null}] :
        /\ sel["left-1"] = "A" /\ sel["left-2"] = "B"
        /\ sel["left-3"] = "C" /\ sel["right-1"] = "D"}

NextSubmit ==
    \/ DataFilesLoaded
    \/ \E f \in Range(DataFiles) : setSelectedStock(f)
    \/ handleStartSimulation
    \/ \E i \in 1..Len(runReqs), e \in RunErrors : RunRejected(i, e)
    \/ \E i \in 1..Len(runReqs), m \in TransportMsgs : RunTransportFailed(i, m)

SpecSubmit == InitFrom(AnySelections) /\ [][NextSubmit]_vars

\* handleBack called while one status request is in flight or scheduled, which
\* the rendered page never offers: the handler on the states the reset of the
\* poll loop is specified for.
BackWhilePolling ==
    /\ Len(polls) + Len(timers) = 1
    /\ runReqs = <<>>
    /\ handleBackBody

NextReset ==
    \/ handleAgentSelect("right-3", "F")
    \/ DataFilesLoaded
    \/ Lifecycle
    \/ BackWhilePolling

SpecReset == InitFrom({FiveSelected}) /\ [][NextReset]_vars

\* The lifecycle alone, from FiveSelected and with the one edit that
\* completes the selection: every run, answer, failure and reset of Spec,
\* without its other selections and datasets.
NextRun ==
    \/ handleAgentSelect("right-3", "F")
    \/ DataFilesLoaded
    \/ Lifecycle

SpecRun == InitFrom({FiveSelected}) /\ [][NextRun]_vars

\* The answers drawn for the liveness of the poll loop: the running
\* snapshots without a preview, and every completed and error snapshot.
LiveSnapshots ==
    {d \in RunningSnapshots : d.code_preview = ""}
        \cup CompletedSnapshots \cup ErrorSnapshots

\* Dashboard.js:165: a timer that is set fires.
TimerFires == \E i \in 1..Len(timers) : timerFired(i)

\* Dashboard.js:135-136,167: a status request is answered or fails.
PollResolves ==
    \/ \E i \in 1..Len(polls), d \in LiveSnapshots : pollSimulationStatus(i, d)
    \/ \E i \in 1..Len(polls), m \in TransportMsgs : pollFailed(i, m)

\* Dashboard.js:138,144: a status request is answered completed or error.
PollReportsEnd ==
    \E i \in 1..Len(polls), d \in CompletedSnapshots \cup ErrorSnapshots :
        pollSimulationStatus(i, d)

NextLive ==
    \/ handleAgentSelect("right-3", "F")
    \/ DataFilesLoaded
    \/ handleStartSimulation
    \/ \E i \in 1..Len(runReqs), id \in SimIds : RunResolved(i, id)
    \/ \E i \in 1..Len(runReqs), e \in RunErrors : RunRejected(i, e)
    \/ \E i \in 1..Len(runReqs), m \in TransportMsgs : RunTransportFailed(i, m)
    \/ PollResolves
    \/ TimerFires
    \/ handleBack

\* The lifecycle under the scheduling the poll loop relies on: the event loop
\* runs every timer that is due, every status request is resolved, and the
\* server reports the end of a job it is asked about again and again.
SpecLive ==
    /\ InitFrom({FiveSelected})
    /\ [][NextLive]_vars
    /\ WF_vars(TimerFires)
    /\ WF_vars(PollResolves)
    /\ SF_vars(PollReportsEnd)

\* The identifiers the bare handler is called with.
SlotInputs == {"A", "B", "C"}

\* Dashboard.js:72-74 called with any slot and identifier, without the click
\* guard of the dropdown: the selection states the handler itself can produce,
\* an identifier held by two slots included.
NextSlot ==
    \E s \in Slots, a \in SlotInputs : setSelectedAgents(s, a)

SpecSlot == Init /\ [][NextSlot]_vars

----------------------------------------------------------------------------
(* Properties *)

Distinct(sel) == NotNull(Range(sel))

NothingPending == polls = <<>> /\ timers = <<>>

\* C1: from the empty selection, under the selections the dropdowns offer,
\* no two distinct slots ever hold the same non-empty identifier.
C1_NoDuplicateSelection ==
    \A s1, s2 \in Slots :
        (s1 # s2 /\ selectedAgents[s1] # Null)
            => selectedAgents[s1] # selectedAgents[s2]

\* All six slots are filled, so every slot has five identifiers disabled.
C1_Witness == \A s \in Slots : selectedAgents[s] # Null

C3_ExactlyOneCreationRequest ==
    [][/\ (/\ handleStartSimulation
           /\ Cardinality(Distinct(selectedAgents)) = 6
           /\ selectedStock # "")
          => /\ Len(runReqs') = Len(runReqs) + 1
             /\ SubSeq(runReqs', 1, Len(runReqs)) = runReqs
             /\ runReqs'[Len(runReqs')].agents =
                    [i \in 1..6 |-> selectedAgents[SlotOrder[i]]]
             /\ runReqs'[Len(runReqs')].stock = selectedStock
       /\ (Len(runReqs') = Len(runReqs)) => (runReqs' = runReqs)]_vars

\* A creation request is in flight and the selection has been edited since.
C3_Witness ==
    /\ Len(runReqs) = 1
    /\ Len(runReqs[1].agents) = 6
    /\ runReqs[1].agents # SelectedList(selectedAgents)

\* C4: a START click that fails validation issues no request and leaves the
\* selection and the whole lifecycle state as they were; the run flag stays
\* false.
C4_ValidationFailureChangesNothing ==
    [][(/\ handleStartSimulation
        /\ (Cardinality(Distinct(selectedAgents)) < 6 \/ selectedStock = ""))
          => /\ UNCHANGED <<selVars, lifeVars, netVars>>
             /\ ~isRunning']_vars

\* Six identifiers were selected before the data files arrived, and the
\* click was refused for the missing dataset.
C4_Witness ==
    /\ alert = "Please select a stock dataset."
    /\ Cardinality(Distinct(selectedAgents)) = 6
    /\ ~isRunning
    /\ runReqs = <<>>

\* C5: when the creation request is answered successfully the run flag is
\* set, progress is 0 and the Generation State Map holds exactly the distinct
\* submitted identifiers, all pending.
C5_RunningAfterCreation ==
    [][\A i \in 1..Len(runReqs), id \in SimIds :
          RunResolved(i, id)
            => /\ isRunning'
               /\ progress' = 0
               /\ DOMAIN genStates' = Range(runReqs[i].agents)
               /\ \A a \in DOMAIN genStates' : genStates'[a] = "pending"]_vars

\* The first status request is out, and the selection no longer is the
\* submitted one.
C5_Witness ==
    /\ simulationStatus = <<"Simulation running...">>
    /\ Len(polls) = 1
    /\ DOMAIN genStates # Distinct(selectedAgents)

\* C6: when job creation fails the run flag is false, the error text is the
\* server's message if there is one and a generic message otherwise (the
\* transport's message for a transport failure), and no status request is
\* issued or scheduled.
C6_CreationFailureReturnsToIdle ==
    [][\A i \in 1..Len(runReqs) :
          /\ \A e \in RunErrors :
                RunRejected(i, e)
                  => /\ ~isRunning'
                     /\ simulationStatus' =
                          <<"Error: ", IF e = "" THEN "Failed to start simulation" ELSE e>>
                     /\ NothingPending'
          /\ \A m \in TransportMsgs :
                RunTransportFailed(i, m)
                  => /\ ~isRunning'
                     /\ simulationStatus' = <<"Error: ", m>>
                     /\ NothingPending']_vars

\* A creation was rejected without a server message.
C6_Witness ==
    /\ simulationStatus = <<"Error: ", "Failed to start simulation">>
    /\ ~isRunning
    /\ runReqs = <<>>

\* C7: the successful creation response issues the first status request in
\* the same step, for the returned simulation id; every status request in
\* flight or scheduled is for an id that a successful creation returned.
C7_FirstPollImmediate ==
    /\ [](\A i \in 1..Len(polls) : polls[i].simId \in handles)
    /\ [](\A i \in 1..Len(timers) : timers[i].simId \in handles)
    /\ [][\A i \in 1..Len(runReqs), id \in SimIds :
             RunResolved(i, id)
               => /\ Len(polls') = Len(polls) + 1
                  /\ polls'[Len(polls')].simId = id
                  /\ timers' = timers]_vars

\* The first status request of a run is in flight, nothing is scheduled.
C7_Witness ==
    /\ Len(polls) = 1
    /\ timers = <<>>
    /\ runReqs = <<>>
    /\ isRunning
    /\ currentTask = <<>>

\* C8: a completed snapshot stores its results, sets progress to 100, clears
\* the run flag, and leaves no status request in flight or scheduled; none
\* appears while the completed status stands.
C8_CompletedStopsPolling ==
    /\ [](simulationStatus = <<"Simulation completed!">> => NothingPending)
    /\ [][\A i \in 1..Len(polls), d \in CompletedSnapshots :
             pollSimulationStatus(i, d)
               => /\ simulationResults' = d.results
                  /\ progress' = 100
                  /\ ~isRunning'
                  /\ NothingPending']_vars

\* A run completed after at least one running snapshot.
C8_Witness ==
    /\ simulationResults \in ResultPayloads
    /\ progress = 100
    /\ ~isRunning
    /\ currentTask # <<>>

\* C9 as stated: progress becomes 100 when and only when a completed
\* snapshot is received.
C9_FullOnlyWhenCompleted ==
    [][/\ \A i \in 1..Len(polls), d \in CompletedSnapshots :
             pollSimulationStatus(i, d) => progress' = 100
       /\ (progress' = 100 /\ progress # 100)
             => \E i \in 1..Len(polls), d \in CompletedSnapshots :
                    pollSimulationStatus(i, d)]_vars

\* The snapshots that are completed or report a progress of 100.
FullSnapshots ==
    {d \in Snapshots :
        d.status = "completed" \/ (d.status = "running" /\ d.progress = <<100>>)}

\* C9 amended: progress becomes 100 when a completed snapshot is received,
\* and otherwise only when a running snapshot whose own progress field is 100
\* is received.
C9_FullOnlyWhenCompletedOrReported ==
    [][/\ \A i \in 1..Len(polls), d \in CompletedSnapshots :
             pollSimulationStatus(i, d) => progress' = 100
       /\ (progress' = 100 /\ progress # 100)
             => \E i \in 1..Len(polls), d \in FullSnapshots :
                    pollSimulationStatus(i, d)]_vars

\* Progress is 100 while the run is still polling.
C9_Witness ==
    /\ progress = 100
    /\ isRunning
    /\ simulationResults = Null
    /\ Len(timers) = 1

\* C10: an error snapshot clears the run flag and shows the server's error
\* message, and leaves no status request in flight or scheduled; none appears
\* while an error status stands.
C10_ErrorStopsPolling ==
    /\ []((Len(simulationStatus) = 2 /\ simulationStatus[1] = "Error: ")
             => NothingPending)
    /\ [][\A i \in 1..Len(polls), d \in ErrorSnapshots :
             pollSimulationStatus(i, d)
               => /\ ~isRunning'
                  /\ simulationStatus' = <<"Error: ", d.error>>
                  /\ NothingPending']_vars

\* The server reported an error after generation had started.
C10_Witness ==
    /\ simulationStatus = <<"Error: ", "Generation failed">>
    /\ ~isRunning
    /\ lastGeneratingRef # Null

\* C11: a failed status request clears the run flag and shows the transport
\* error, and leaves no status request in flight or scheduled; none appears
\* while the polling error stands (no retry).
C11_PollFailureIsTerminal ==
    /\ []((Len(simulationStatus) = 2 /\ simulationStatus[1] = "Polling error: ")
             => NothingPending)
    /\ [][\A i \in 1..Len(polls), m \in TransportMsgs :
             pollFailed(i, m)
               => /\ ~isRunning'
                  /\ simulationStatus' = <<"Polling error: ", m>>
                  /\ NothingPending']_vars

\* A status request failed after an earlier one had been answered.
C11_Witness ==
    /\ simulationStatus = <<"Polling error: ", "Failed to fetch">>
    /\ ~isRunning
    /\ currentTask # <<>>

\* C12: status requests in flight and poll timers scheduled never number more
\* than one together, whatever the user does meanwhile; a running snapshot
\* schedules exactly one timer, and a timer issues exactly one request.
C12_OnePollOutstanding ==
    /\ [](Len(polls) + Len(timers) <= 1)
    /\ [][/\ \A i \in 1..Len(polls), d \in RunningSnapshots :
               (currentTask' = messageOf(d) /\ pollSimulationStatus(i, d))
                  => Len(timers') = Len(timers) + 1 /\ polls' = <<>>
          /\ \A i \in 1..Len(timers) :
               timerFired(i) => Len(polls') = 1 /\ timers' = <<>>]_vars

\* A timer is pending while the user has edited the selection.
C12_Witness ==
    /\ Len(timers) = 1
    /\ polls = <<>>
    /\ isRunning
    /\ DOMAIN genStates # Distinct(selectedAgents)

\* The lifecycle state that a reset leaves.
ResetState ==
    /\ simulationResults = Null
    /\ simulationStatus = <<>>
    /\ ~isRunning
    /\ progress = 0
    /\ currentTask = <<>>
    /\ codePreview = ""
    /\ codePreviewModel = ""
    /\ lastPreviewModelRef = ""
    /\ genStates = <<>>
    /\ lastGeneratingRef = Null
    /\ showInstructions

\* C13: Back can be taken in every lifecycle state (in every state that a
\* reset would change), and it leaves the reset state with the selection and
\* the dataset choice as they were.
C13_ResetFromAnyState ==
    /\ [](~ResetState => ENABLED handleBack)
    /\ [][handleBack => (ResetState' /\ UNCHANGED selVars)]_vars

GeneratingCases ==
    {c \in MsgIndex \X MsgModels \X RunningSnapshots :
        c[3].message = GenMsg(c[1], c[2])}

\* The running snapshots that carry the completion phrase.
CompletionSnapshots == {d \in RunningSnapshots : d.message = AllDoneMsg}

\* The running snapshots whose message matches neither pattern.
UnmatchedSnapshots == {d \in RunningSnapshots : d.message \in {<<>>, OtherMsg}}

\* The running snapshots that carry a code preview.
PreviewSnapshots == {d \in RunningSnapshots : d.code_preview # ""}

\* C15: a "Generating algorithm k/n using X..." message marks X generating
\* and makes it the last-generating identifier; the previous one, if there is
\* one and it is not X, is marked done; every other entry is as it was.
C15_GeneratingRule ==
    [][\A i \in 1..Len(polls), c \in GeneratingCases :
          (currentTask' = c[3].message /\ pollSimulationStatus(i, c[3]))
            => LET m == c[2]
                   prev == lastGeneratingRef
                   touched == IF prev # Null THEN {m, prev} ELSE {m}
               IN  /\ lastGeneratingRef' = m
                   /\ DOMAIN genStates' = DOMAIN genStates \cup touched
                   /\ genStates'[m] = "generating"
                   /\ (prev # Null /\ prev # m) => genStates'[prev] = "done"
                   /\ \A n \in DOMAIN genStates \ touched :
                         genStates'[n] = genStates[n]]_vars

\* One model is generating, the one before it is done, the rest are pending.
C15_Witness ==
    /\ lastGeneratingRef # Null
    /\ \E a, b, c \in DOMAIN genStates :
          /\ genStates[a] = "generating"
          /\ genStates[b] = "done"
          /\ genStates[c] = "pending"

\* C16: the message "All algorithms generated successfully" marks every entry
\* of the Generation State Map done, over the same identifiers, and clears the
\* last-generating identifier.
C16_CompletionRule ==
    [][\A i \in 1..Len(polls), d \in CompletionSnapshots :
          (currentTask' = d.message /\ pollSimulationStatus(i, d))
            => /\ DOMAIN genStates' = DOMAIN genStates
               /\ \A n \in DOMAIN genStates' : genStates'[n] = "done"
               /\ lastGeneratingRef' = Null]_vars

\* The completion phrase arrived after A and B had been named: all six
\* submitted identifiers are done.
C16_Witness ==
    /\ currentTask = AllDoneMsg
    /\ isRunning
    /\ Cardinality(DOMAIN genStates) = 6
    /\ \A n \in DOMAIN genStates : genStates[n] = "done"

\* C17: a running snapshot whose message matches neither pattern (or that has
\* no message) changes the current-task text and leaves the Generation State
\* Map and the last-generating identifier as they were.
C17_DefaultRule ==
    [][\A i \in 1..Len(polls), d \in UnmatchedSnapshots :
          (currentTask' = messageOf(d) /\ pollSimulationStatus(i, d))
            => /\ genStates' = genStates
               /\ lastGeneratingRef' = lastGeneratingRef
               /\ currentTask' =
                    IF d.message = <<>>
                    THEN <<"Running... ", NumStr(polledProgress(progress, d)), "%">>
                    ELSE d.message]_vars

\* An unmatched message arrived while a model was generating.
C17_Witness ==
    /\ currentTask = OtherMsg
    /\ lastGeneratingRef # Null
    /\ \E n \in DOMAIN genStates : genStates[n] = "generating"

\* C18: after every running snapshot that carries a preview, the displayed
\* preview text and its source are the snapshot's.
C18_PreviewFollowsSnapshot ==
    [][\A i \in 1..Len(polls), d \in PreviewSnapshots :
          (currentTask' = messageOf(d) /\ pollSimulationStatus(i, d))
            => /\ codePreview' = d.code_preview
               /\ codePreviewModel' = d.preview_model]_vars

\* The number written in a message.
MsgIndexValue(k) == CASE k = "1" -> 1 [] k = "2" -> 2 [] k = "3" -> 3 [] OTHER -> 0

\* C19: when "Generating algorithm k/6 using X..." is interpreted, also as
\* the first answer of the run, X is generating and k-1 other identifiers are
\* done; a completed answer then clears the run flag, stores the results and
\* leaves no poll pending.
C19_ExampleRun ==
    [][/\ \A i \in 1..Len(polls), c \in GeneratingCases :
             (currentTask' = c[3].message /\ pollSimulationStatus(i, c[3]))
               => /\ genStates'[c[2]] = "generating"
                  /\ Cardinality({n \in DOMAIN genStates' \ {c[2]} :
                                     genStates'[n] = "done"}) = MsgIndexValue(c[1]) - 1
       /\ \A i \in 1..Len(polls), d \in CompletedSnapshots :
             pollSimulationStatus(i, d)
               => /\ ~isRunning'
                  /\ simulationResults' = d.results
                  /\ NothingPending']_vars

\* C20: at most one run is active: creation requests, status requests and
\* poll timers never number more than one together, all of them exist only
\* while the run flag is set, and START issues a request only when there is
\* none of them.
C20_OneRunAtATime ==
    /\ [](Len(runReqs) + Len(polls) + Len(timers) <= 1)
    /\ []((Len(runReqs) + Len(polls) + Len(timers) > 0) => isRunning)
    /\ [][Len(runReqs') > Len(runReqs)
             => (runReqs = <<>> /\ NothingPending /\ ~isRunning)]_vars

\* A second run has been started after the first one ended.
C20_Witness ==
    /\ Len(runReqs) = 1
    /\ handles # {}
    /\ isRunning

\* C21: a selection edit made while a run is in progress changes the
\* selection alone: the lifecycle state, the Generation State Map with its
\* keys, the preview, the results, the dataset and every request and timer
\* are as they were.
C21_EditDuringRunChangesSelectionOnly ==
    [][\A e \in EditInputs :
          (isRunning /\ handleAgentSelect(e[1], e[2]))
             => /\ UNCHANGED <<lifeVars, netVars, stocks, selectedStock>>
                /\ DOMAIN genStates' = DOMAIN genStates]_vars

\* A run is being polled and the selection no longer is what was submitted.
C21_Witness ==
    /\ isRunning
    /\ Len(polls) + Len(timers) = 1
    /\ Cardinality(DOMAIN genStates) = 6
    /\ DOMAIN genStates # Distinct(selectedAgents)

\* C22: the handler called with any slot and identifier is always possible
\* and sets that slot alone; the five other slots keep their values, also
\* when one of them holds the same identifier.
C22_SelectSetsOneSlot ==
    /\ [](\A s \in Slots, a \in SlotInputs : ENABLED setSelectedAgents(s, a))
    /\ [][\A s \in Slots, a \in SlotInputs :
            setSelectedAgents(s, a)
               => /\ selectedAgents'[s] = a
                  /\ \A o \in Slots \ {s} : selectedAgents'[o] = selectedAgents[o]]_vars

\* The bare handler has put one identifier into two slots.
C22_Witness ==
    \E s1, s2 \in Slots :
        /\ s1 # s2
        /\ selectedAgents[s1] # Null
        /\ selectedAgents[s1] = selectedAgents[s2]

\* The non-empty identifiers held by the slots other than s.
HeldByOthers(sel, s) == NotNull({sel[o] : o \in Slots \ {s}})

EndedStatus ==
    /\ Len(simulationStatus) > 0
    /\ simulationStatus[1] \in {"Simulation completed!", "Error: ", "Polling error: "}

\* C24: once a run is being polled, if timers fire, status requests resolve
\* and the server eventually reports completed or error, the run reaches an
\* ended state: completed or errored status, run flag false, no status
\* request in flight and no poll timer set.
C24_RunEventuallyEnds ==
    (Len(polls) + Len(timers) > 0) ~> (EndedStatus /\ ~isRunning /\ NothingPending)

\* A run has ended by a polling error after a running snapshot was shown.
C24_Witness ==
    /\ EndedStatus
    /\ simulationStatus[1] = "Polling error: "
    /\ ~isRunning
    /\ NothingPending
    /\ currentTask # <<>>

\* C25: every running snapshot sets the displayed progress to its progress
\* field, 0 when the field is not a number, whether that is higher, equal or
\* lower than the value displayed before; the run flag stays as it was, the
\* status is the snapshot's message and the next poll is scheduled.
C25_ProgressFollowsSnapshot ==
    [][\A i \in 1..Len(polls), d \in RunningSnapshots :
          (currentTask' = messageOf(d) /\ pollSimulationStatus(i, d))
             => /\ progress' = (IF d.progress = <<>> THEN 0 ELSE d.progress[1])
                /\ isRunning' = isRunning
                /\ simulationStatus' = messageOf(d)
                /\ Len(timers') = Len(timers) + 1]_vars

\* The bar shows 100 during a run whose next poll is scheduled: whatever the
\* next running snapshot reports is lower or the same.
C25_Witness ==
    /\ isRunning
    /\ progress = 100
    /\ Len(timers) = 1
    /\ simulationStatus = OtherMsg

\* C26: applying a running snapshot to the state it has just produced, in
\* the same poll chain, changes nothing: progress, status and current-task
\* text, Generation State Map, last-generating identifier, preview and its
\* source are already what the snapshot makes them.
C26_IdempotentRefresh ==
    [][\A i \in 1..Len(polls), d \in RunningSnapshots :
          (currentTask' = messageOf(d) /\ pollSimulationStatus(i, d))
             => \A c \in {polls[i].codePreview} :
                  /\ polledProgress(progress', d) = progress'
                  /\ polledStatus(d) = simulationStatus'
                  /\ messageOf(d) = currentTask'
                  /\ parsedGenStates(genStates', lastGeneratingRef', messageOf(d))
                        = genStates'
                  /\ parsedLastGenerating(lastGeneratingRef', messageOf(d))
                        = lastGeneratingRef'
                  /\ (previewAccepted(d, c))'
                        => /\ codePreview' = d.code_preview
                           /\ codePreviewModel' = d.preview_model
                           /\ lastPreviewModelRef' = d.preview_model]_vars

\* A snapshot naming a model, with progress 40 and a preview, has been
\* applied and the next poll of the chain is scheduled.
C26_Witness ==
    /\ isRunning
    /\ Len(timers) = 1
    /\ progress = 40
    /\ lastGeneratingRef # Null
    /\ currentTask = GenMsg("3", lastGeneratingRef)
    /\ codePreview # ""

\* The identifiers the Generation State Map has at generating.
Generating == {n \in DOMAIN genStates : genStates[n] = "generating"}

\* C27: at most one identifier of the Generation State Map is generating, and
\* it is the last-generating identifier.
C27_OneGenerating ==
    /\ Cardinality(Generating) <= 1
    /\ \A n \in Generating : n = lastGeneratingRef

\* B is generating after A was.
C27_Witness ==
    /\ lastGeneratingRef = "B"
    /\ {"A", "B"} \subseteq DOMAIN genStates
    /\ genStates["A"] = "done"
    /\ genStates["B"] = "generating"

\* C28: a status request in flight or a poll timer set implies the run flag,
\* and the run flag implies a creation request or a status request in flight
\* or a poll timer set.
C28_RunFlagAgreesWithPending ==
    /\ ~NothingPending => isRunning
    /\ isRunning => (runReqs # <<>> \/ ~NothingPending)

\* A run ended by an error snapshot while a model was generating: flag
\* false, nothing pending.
C28_Witness ==
    /\ ~isRunning
    /\ NothingPending
    /\ runReqs = <<>>
    /\ Len(simulationStatus) = 2
    /\ simulationStatus[1] = "Error: "
    /\ Generating # {}

\* C29: results are populated only with the run flag false and progress 100;
\* a START that passes validation and a Back both clear them, and the run
\* flag is never raised with results still populated.
C29_ResultsOnlyWhenDone ==
    /\ [](simulationResults # Null => (~isRunning /\ progress = 100))
    /\ [][/\ (handleStartSimulation /\ alert' = Null) => simulationResults' = Null
          /\ handleBack => simulationResults' = Null
          /\ (~isRunning /\ isRunning') => simulationResults' = Null]_vars

\* The results of a run are shown with its last preview still visible.
C29_Witness ==
    /\ simulationResults # Null
    /\ progress = 100
    /\ ~isRunning
    /\ codePreview # ""

\* The status texts of a run that ended in an error.
ErroredStatus ==
    /\ Len(simulationStatus) = 2
    /\ simulationStatus[1] \in {"Error: ", "Polling error: "}

\* C30: Back can be clicked exactly when results are populated; it is
\* therefore never taken with a creation request or status request in flight
\* or a poll timer set, and it is not offered after a run that ended in an
\* error.
C30_BackOnlyWithResults ==
    /\ [](ENABLED handleBack <=> simulationResults # Null)
    /\ [](ErroredStatus => ~ENABLED handleBack)
    /\ [][handleBack => (NothingPending /\ runReqs = <<>> /\ ~isRunning)]_vars

\* A run was made and Back has been clicked.
C30_Witness ==
    /\ showInstructions
    /\ handles # {}
    /\ simulationStatus = <<>>
    /\ NothingPending

====
